---- MODULE Spec2Model ----
(***************************************************************************)
(* A model of jirafly.py, a command-line client of a remote issue tracker. *)
(* One behaviour is one invocation of the program per process: the         *)
(* arguments are chosen, main() runs, and every call to the remote tracker *)
(* is one step.  The remote tracker, the credentials file and the template *)
(* catalog file are shared state.                                          *)
(*                                                                         *)
(* Strings the program concatenates, formats or splits are sequences of    *)
(* atoms (<<"a", ",", "b">> is "a,b"); Python's None is the empty tuple    *)
(* and a present value x is <<x>>.                                         *)
(***************************************************************************)
EXTENDS Integers, Sequences, FiniteSets, TLC

\* Longest --components / --labels argument of the list actions, in atoms.
MaxArgLen == 3
\* Number of children of the largest template of the catalog.
MaxChildren == 3

None == <<>>
Some(x) == <<x>>
IsNone(o) == Len(o) = 0
Val(o) == o[1]

\* new overrides old on the fields new names
Over(new, old) == [x \in DOMAIN old |-> IF x \in DOMAIN new THEN new[x] ELSE old[x]]
\* dict[k] = v
Ext(f, k, v) == [x \in (DOMAIN f) \cup {k} |-> IF x = k THEN v ELSE f[x]]

RECURSIVE SeqsUpTo(_, _)
SeqsUpTo(S, n) ==
  IF n = 0 THEN {<<>>}
  ELSE LET shorter == SeqsUpTo(S, n - 1)
       IN  shorter \cup {Append(s, x) : s \in {t \in shorter : Len(t) = n - 1}, x \in S}

RECURSIVE SortedSeq(_)
SortedSeq(S) ==
  IF S = {} THEN <<>>
  ELSE LET m == CHOOSE x \in S : \A y \in S : x <= y
       IN  <<m>> \o SortedSeq(S \ {m})

Range(s) == {s[i] : i \in 1..Len(s)}

---------------------------------------------------------------------------
(* Constants of the program *)

CMD_TARGET == "target"
CMD_ISSUE_CREATE == "issue-create"
CMD_ISSUE_READ == "issue-read"
CMD_ISSUE_UPDATE == "issue-update"
CMD_ISSUE_DELETE == "issue-delete"
CMD_ISSUE_COMMENT == "issue-comment"
CMD_ISSUE_ASSIGN == "issue-assign"
CMD_ISSUE_UPDATE_SPRINT == "issue-update-sprint"
CMD_ISSUE_UPDATE_EPIC == "issue-update-epic"
CMD_ISSUE_UPDATE_REPORTER == "issue-update-reporter"
CMD_ISSUE_UPDATE_DUE_DATE == "issue-update-due-date"
CMD_ISSUE_WATCHER_ADD == "issue-watcher-add"
CMD_ISSUE_WATCHER_REMOVE == "issue-watcher-remove"
CMD_COMPONENT_ADD == "component-add"
CMD_COMPONENT_REMOVE == "component-remove"
CMD_LABEL_ADD == "label-add"
CMD_LABEL_REMOVE == "label-remove"
CMD_TEMPLATE_CREATE == "template-create"
CMD_TEMPLATE_LIST == "template-list"

COMMANDS ==
  { CMD_TARGET, CMD_ISSUE_CREATE, CMD_ISSUE_READ, CMD_ISSUE_UPDATE, CMD_ISSUE_DELETE,
    CMD_ISSUE_COMMENT, CMD_ISSUE_ASSIGN, CMD_ISSUE_UPDATE_EPIC, CMD_ISSUE_UPDATE_SPRINT,
    CMD_ISSUE_UPDATE_REPORTER, CMD_ISSUE_UPDATE_DUE_DATE, CMD_ISSUE_WATCHER_ADD,
    CMD_ISSUE_WATCHER_REMOVE, CMD_COMPONENT_ADD, CMD_COMPONENT_REMOVE, CMD_LABEL_ADD,
    CMD_LABEL_REMOVE, CMD_TEMPLATE_CREATE, CMD_TEMPLATE_LIST }

ACTION_ADD == "add"
ACTION_REMOVE == "remove"

PRIORITY_MAJOR == "Major"
PRIORITY_BLOCKER == "Blocker"

ISSUE_TYPE_EPIC == "Epic"
ISSUE_TYPE_TASK == "Task"
ISSUE_TYPE_SUBTASK == "Sub-task"

EPIC_NAME_FIELD == "customfield_12311141"

---------------------------------------------------------------------------
(* Pure functions of the program *)

\* str.split(","): the pieces between the "," atoms, empty pieces included
RECURSIVE SplitFrom(_, _, _)
SplitFrom(s, i, cur) ==
  IF i > Len(s) THEN <<cur>>
  ELSE IF s[i] = "," THEN <<cur>> \o SplitFrom(s, i + 1, <<>>)
  ELSE SplitFrom(s, i + 1, Append(cur, s[i]))

Split(s) == SplitFrom(s, 1, <<>>)

\* components = args.components.split(",") unless the argument is None
SplitArg(arg) == IF IsNone(arg) THEN None ELSE Some(Split(Val(arg)))

\* the index of the last element equal to v
IndexOfLast(list, v) ==
  IF \E i \in 1..Len(list) : list[i] = v
  THEN CHOOSE i \in 1..Len(list) : list[i] = v /\ \A j \in (i + 1)..Len(list) : list[j] # v
  ELSE 0

\* list.index(v) as list.remove uses it: the first element equal to v, 0 if none
IndexOf(list, v) ==
  IF \E i \in 1..Len(list) : list[i] = v
  THEN CHOOSE i \in 1..Len(list) : list[i] = v /\ \A j \in 1..(i - 1) : list[j] # v
  ELSE 0

RemoveAt(list, i) == SubSeq(list, 1, i - 1) \o SubSeq(list, i + 1, Len(list))

\* list.append(v) for every v of values
AppendEach(list, values) == list \o values

\* a removal that skips the values the list does not hold
RECURSIVE RemoveEachLenient(_, _)
RemoveEachLenient(list, values) ==
  IF Len(values) = 0 THEN [ok |-> TRUE, list |-> list]
  ELSE LET i == IndexOf(list, Head(values))
       IN  RemoveEachLenient(IF i = 0 THEN list ELSE RemoveAt(list, i), Tail(values))

\* list.remove(v) for every v of values, in order; ok is FALSE when a
\* remove raised ValueError (v not in the list)
RECURSIVE RemoveEach(_, _)
RemoveEach(list, values) ==
  IF Len(values) = 0 THEN [ok |-> TRUE, list |-> list]
  ELSE LET i == IndexOf(list, Head(values))
       IN  IF i = 0 THEN [ok |-> FALSE, list |-> list]
           ELSE RemoveEach(RemoveAt(list, i), Tail(values))

\* the new list of doComponentManage / doLabelManage
ManageList(current, values, action) ==
  IF action = ACTION_ADD THEN [ok |-> TRUE, list |-> AppendEach(current, values)]
  ELSE RemoveEach(current, values)

NameObjects(list) == [i \in 1..Len(list) |-> [name |-> list[i]]]
Names(objs) == [i \in 1..Len(objs) |-> objs[i].name]

\* a test that also takes an empty value for a missing one
IsTruthy(x) == ~IsNone(x) /\ Len(Val(x)) > 0

\* "is not None" at lines 151, 154 and 159
IsSupplied(x) == ~IsNone(x)

\* the fields dictionary doIssueCreate passes to create_issue
CreateFields(project, issuetype, parent, priority, summary, description, assignee, components, labels) ==
  LET f0 == [project |-> [key |-> project], issuetype |-> [name |-> issuetype],
             priority |-> [name |-> priority], summary |-> summary,
             assignee |-> [name |-> assignee]]
      f1 == IF IsSupplied(description) THEN Ext(f0, "description", Val(description)) ELSE f0
      f2 == IF IsSupplied(components) THEN Ext(f1, "components", NameObjects(Val(components)))
            ELSE f1
      f3 == IF IsSupplied(labels) THEN Ext(f2, "labels", Val(labels)) ELSE f2
      f4 == IF issuetype = ISSUE_TYPE_EPIC THEN Ext(f3, EPIC_NAME_FIELD, summary) ELSE f3
      f5 == IF issuetype = ISSUE_TYPE_SUBTASK /\ ~IsNone(parent)
            THEN Ext(f4, "parent", [key |-> Val(parent)]) ELSE f4
  IN  f5

\* an epic-link call for every issue created with a parent, sub-tasks included
NeedsEpicLinkAnyType(issuetype, parent) == ~IsNone(parent)

\* the epic-link call follows the create call
NeedsEpicLink(issuetype, parent) == issuetype # ISSUE_TYPE_SUBTASK /\ ~IsNone(parent)

\* "%s\n\nFurther details ... are available at:\n\n* %s" % (description, sop)
SOP_NONE == <<"-">>
WithSop(description, sop) ==
  IF sop # SOP_NONE THEN description \o <<"\n\nFurther details at:\n\n* ">> \o sop
  ELSE description

Count(s, a) == Cardinality({i \in 1..Len(s) : s[i] = a})

\* str(suffix)
Str(suffix) == IF IsNone(suffix) THEN <<"None">> ELSE Val(suffix)

RECURSIVE Subst(_, _)
Subst(s, t) ==
  IF Len(s) = 0 THEN <<>>
  ELSE (IF Head(s) = "%s" THEN t ELSE <<Head(s)>>) \o Subst(Tail(s), t)

\* description % (suffix): raises TypeError unless there is exactly one "%s"
Format(description, suffix) ==
  IF Count(description, "%s") = 1
  THEN [ok |-> TRUE, text |-> Subst(description, Str(suffix))]
  ELSE [ok |-> FALSE, text |-> description]

\* a concatenation that leaves the separator out
SuffixedBare(summary, suffix) ==
  IF IsNone(suffix) THEN [ok |-> FALSE, text |-> summary]
  ELSE [ok |-> TRUE, text |-> summary \o Val(suffix)]

\* summary + ": " + suffix: raises TypeError when suffix is None
Suffixed(summary, suffix) ==
  IF IsNone(suffix) THEN [ok |-> FALSE, text |-> summary]
  ELSE [ok |-> TRUE, text |-> summary \o <<": ">> \o Val(suffix)]

\* lines 543-546: the parent's summary; the bare except keeps it unsuffixed
ParentSummary(parent, suffix) == Suffixed(parent.summary, suffix).text

\* lines 548-558: the parent's description
ParentDescription(parent, suffix) ==
  WithSop(Format(parent.description, suffix).text, parent.sop)

\* child texts that leave the suffix out when there is none
ChildTextsLenient(child, suffix) ==
  LET s == Suffixed(child.summary, suffix)
      f == IF Count(child.description, "%s") > 0 THEN Format(child.description, suffix)
           ELSE [ok |-> TRUE, text |-> child.description]
  IN  [ok |-> IsNone(suffix) \/ (s.ok /\ f.ok), summary |-> s.text,
       description |-> WithSop(f.text, child.sop)]

\* lines 581-593: a child's summary and description; ok is FALSE when the
\* concatenation or the formatting raises TypeError, which nothing catches
ChildTexts(child, suffix) ==
  LET s == Suffixed(child.summary, suffix)
      f == IF Count(child.description, "%s") > 0 THEN Format(child.description, suffix)
           ELSE [ok |-> TRUE, text |-> child.description]
  IN  [ok |-> s.ok /\ f.ok, summary |-> s.text, description |-> WithSop(f.text, child.sop)]

---------------------------------------------------------------------------
(* The files and the remote tracker *)

ChildDef(i) ==
  [summary |-> <<"Step", ToString(i)>>,
   description |-> IF i % 2 = 1 THEN <<"Do ", "%s">> ELSE <<"Check">>,
   sop |-> IF i % 2 = 1 THEN SOP_NONE ELSE <<"http://sop">>,
   type |-> IF i % 2 = 1 THEN ISSUE_TYPE_SUBTASK ELSE ISSUE_TYPE_TASK,
   components |-> <<<<"a">>>>, labels |-> <<<<"x">>, <<"y">>>>]

ParentDef(summary, description, sop, unique, type, n) ==
  [summary |-> summary, description |-> description, project |-> "TP", sop |-> sop,
   be_unique |-> unique, type |-> type, components |-> <<<<"b">>, <<"a">>>>,
   labels |-> <<>>, children |-> [i \in 1..n |-> ChildDef(i)]]

\* templates.json: the identifiers in file order and the definitions.  A
\* be_unique of None is a definition without that key.
Catalog ==
  [order |-> <<3, 1, 2>>,
   t |-> [id \in {1, 2, 3} |->
            [parent |->
               CASE id = 1 -> ParentDef(<<"Release Checklist">>, <<"Release ", "%s">>,
                                        SOP_NONE, Some(TRUE), ISSUE_TYPE_EPIC, MaxChildren)
                 [] id = 2 -> ParentDef(<<"Onboarding">>, <<"Welcome">>,
                                        <<"http://sop">>, None, ISSUE_TYPE_TASK, 1)
                 [] OTHER -> ParentDef(<<"Audit">>, <<"Audit ", "%s">>,
                                        SOP_NONE, Some(FALSE), ISSUE_TYPE_EPIC, 0)]]]

TemplateFiles == {None, Some(Catalog)}

Creds(server, username, token, project) ==
  [json |-> TRUE, server |-> server, username |-> username, token |-> token,
   project |-> project]

\* a file that json.load rejects
Malformed == [Creds("", None, None, None) EXCEPT !.json = FALSE]

CredsFiles ==
  { None, Some(Malformed),
    Some(Creds("prod", Some("u"), Some("tok"), Some("P"))),
    Some(Creds("prod", None, Some("tok"), None)),
    Some(Creds("prod", Some("u"), Some("old"), Some("P"))) }

\* the logins the tracker accepts
ValidLogins == {<<"prod", Some("tok")>>}
Accepts(server, token) == <<server, token>> \in ValidLogins

InitLists == {<<>>, <<<<"a">>>>, <<<<"a">>, <<"b">>, <<"a">>>>}

Issue(fields) == [fields |-> fields, epic |-> None]

InitIssues ==
  { [k \in {1, 2} |->
       IF k = 1
       THEN Issue(CreateFields(Some("P"), ISSUE_TYPE_EPIC, None, PRIORITY_MAJOR,
                               Some(<<"Epic one">>), None, Some("u"), Some(l), Some(l)))
       ELSE Issue(CreateFields(Some("P"), ISSUE_TYPE_TASK, None, PRIORITY_MAJOR,
                               Some(<<"Release Checklist", ": ", "R1">>), None, None,
                               None, None))]
    : l \in InitLists }

\* issue.fields.labels / issue.fields.components as the tracker returns them
LabelsOf(issue) == IF "labels" \in DOMAIN issue.fields THEN issue.fields["labels"] ELSE <<>>
ComponentsOf(issue) ==
  IF "components" \in DOMAIN issue.fields THEN issue.fields["components"] ELSE <<>>

NewKey(store) == 1 + (CHOOSE k \in DOMAIN store \cup {0} : \A j \in DOMAIN store : j <= k)

Call(p, op, a, ok, r) == [proc |-> p, op |-> op, a |-> a, ok |-> ok, r |-> r]
Line(kind, data) == [kind |-> kind, data |-> data]

---------------------------------------------------------------------------
(* Command lines *)

\* genParser's defaults
Defaults ==
  [action |-> CMD_TARGET, server |-> "prod", username |-> None, token |-> None,
   project |-> None, parent |-> None, summary |-> None, assignee |-> None,
   reporter |-> None, duedate |-> None, watcher |-> None, message |-> None,
   key |-> None, description |-> None, issuetype |-> ISSUE_TYPE_TASK,
   priority |-> PRIORITY_MAJOR, components |-> None, labels |-> None,
   template |-> None]

With(action, r) == Over(Ext(r, "action", action), Defaults)

OptUsers == {None, Some("u")}
OptProjects == {None, Some("Q")}
\* an issue the tracker has, one it does not have, no --key
OptKeys == {None, Some(1), Some(9)}
\* the comma-separated --components / --labels of the list actions
ListArgs == {None} \cup {Some(t) : t \in SeqsUpTo({"a", "b", ","}, MaxArgLen)}
CreateListArgs == {None, Some(<<"a">>), Some(<<"b", ",", "a">>)}

ArgsOf(action) ==
  CASE action = CMD_TARGET ->
         {With(action, [server |-> s, username |-> u, token |-> t, project |-> pr]) :
            s \in {"prod", "other"}, u \in OptUsers,
            t \in {None, Some("tok"), Some("bad")}, pr \in OptProjects}
    [] action = CMD_ISSUE_CREATE ->
         {With(action, [project |-> pr, issuetype |-> it, parent |-> pa, priority |-> pri,
                        summary |-> Some(<<"S">>), description |-> d, assignee |-> u,
                        components |-> c, labels |-> l]) :
            pr \in OptProjects,
            it \in {ISSUE_TYPE_EPIC, ISSUE_TYPE_TASK, ISSUE_TYPE_SUBTASK},
            pa \in {None, Some(1)}, pri \in {PRIORITY_MAJOR, PRIORITY_BLOCKER},
            d \in {None, Some(<<"D">>)}, u \in OptUsers, c \in CreateListArgs,
            l \in {None, Some(<<"x", ",", "y">>)}}
    [] action \in {CMD_ISSUE_READ, CMD_ISSUE_DELETE, CMD_ISSUE_UPDATE} ->
         {With(action, [key |-> k]) : k \in OptKeys}
    [] action = CMD_ISSUE_COMMENT ->
         {With(action, [key |-> k, message |-> m]) :
            k \in OptKeys, m \in {None, Some("hello")}}
    [] action = CMD_ISSUE_ASSIGN ->
         {With(action, [key |-> k, assignee |-> u]) : k \in OptKeys, u \in OptUsers}
    [] action \in {CMD_ISSUE_UPDATE_EPIC, CMD_ISSUE_UPDATE_SPRINT} ->
         {With(action, [key |-> k, parent |-> pa]) :
            k \in OptKeys, pa \in {None, Some(1)}}
    [] action = CMD_ISSUE_UPDATE_REPORTER ->
         {With(action, [key |-> k, reporter |-> u]) : k \in OptKeys, u \in OptUsers}
    [] action = CMD_ISSUE_UPDATE_DUE_DATE ->
         {With(action, [key |-> k, duedate |-> d]) :
            k \in OptKeys, d \in {None, Some("2026-01-01")}}
    [] action \in {CMD_ISSUE_WATCHER_ADD, CMD_ISSUE_WATCHER_REMOVE} ->
         {With(action, [key |-> k, watcher |-> u]) : k \in OptKeys, u \in OptUsers}
    [] action \in {CMD_COMPONENT_ADD, CMD_COMPONENT_REMOVE} ->
         {With(action, [key |-> k, components |-> c]) :
            k \in {Some(1), Some(9)}, c \in ListArgs}
    [] action \in {CMD_LABEL_ADD, CMD_LABEL_REMOVE} ->
         {With(action, [key |-> k, labels |-> l]) :
            k \in {Some(1), Some(9)}, l \in ListArgs}
    [] action = CMD_TEMPLATE_CREATE ->
         {With(action, [template |-> t, summary |-> sfx, assignee |-> u, project |-> pr]) :
            t \in {None, Some(1), Some(2), Some(3), Some(9)},
            sfx \in {None, Some(<<"R1">>), Some(<<>>)}, u \in OptUsers,
            pr \in OptProjects}
    [] OTHER -> {With(action, [project |-> pr]) : pr \in OptProjects}

---------------------------------------------------------------------------
(* State *)

VARIABLES
  inv,            \* per process: the invocation's local state
  credsFile,      \* ~/.jf/jira.creds: None when absent
  templatesFile,  \* ~/.jf/templates.json: None when absent
  issues,         \* the tracker's issues by key
  calls           \* the calls made to the tracker, in order

vars == <<inv, credsFile, templatesFile, issues, calls>>

Procs == {1, 2}

NoFrame ==
  [project |-> None, issuetype |-> ISSUE_TYPE_TASK, parent |-> None,
   priority |-> PRIORITY_MAJOR, summary |-> None, description |-> None,
   assignee |-> None, components |-> None, labels |-> None]

Idle ==
  [pc |-> "idle", args |-> Defaults, components |-> None, labels |-> None,
   project |-> None, creds |-> None, credsOpened |-> FALSE, client |-> FALSE,
   issue |-> None, current |-> <<>>, newlist |-> <<>>, fr |-> NoFrame, created |-> None,
   tmpl |-> None, parentIssue |-> None, child |-> 0, creds0 |-> None,
   templates0 |-> None,
   exit |-> None, exc |-> "none", out |-> <<>>]

Init ==
  /\ inv = [p \in Procs |-> Idle]
  /\ credsFile \in CredsFiles
  /\ templatesFile \in TemplateFiles
  /\ issues \in InitIssues
  /\ calls = <<>>

\* sys.exit(code) after printing lines; exc names an exception nothing caught
Finish(r, code, exc, lines) ==
  Over([pc |-> "done", exit |-> Some(code), exc |-> exc, out |-> r.out \o lines], r)

Error(r, msg) == Finish(r, 1, "none", <<Line("ERROR", <<msg>>)>>)
\* an exception no handler catches: a traceback, and the interpreter exits 1
Uncaught(r, exc) == Finish(r, 1, exc, <<>>)

Set(p, r) == inv' = [inv EXCEPT ![p] = r]
Log(call) == calls' = Append(calls, call)

---------------------------------------------------------------------------
(* main *)

\* line 623: parse_args; creds0 and templates0 remember the files as found
Start(p) ==
  /\ inv[p].pc = "idle"
  /\ \E action \in COMMANDS : \E a \in ArgsOf(action) :
       Set(p, Over([pc |-> IF action = CMD_TARGET THEN "target_auth" ELSE "parse",
                    args |-> a, creds0 |-> credsFile,
                    templates0 |-> templatesFile], inv[p]))
  /\ UNCHANGED <<credsFile, templatesFile, issues, calls>>

\* a target that opens the credentials file for writing before it authenticates
TargetAuthSaveFirst(p) ==
  LET r == inv[p]
      ok == Accepts(r.args.server, r.args.token)
  IN  /\ r.pc = "target_auth"
      /\ Log(Call(p, "auth", <<r.args.server, r.args.token>>, ok, <<>>))
      /\ credsFile' = IF ok THEN credsFile ELSE Some(Malformed)
      /\ Set(p, IF ok THEN Over([pc |-> "target_save"], r)
                ELSE IF IsNone(r.args.username) THEN Uncaught(r, "TypeError")
                ELSE Error(r, "Failed to validate JIRA credentials"))
      /\ UNCHANGED <<templatesFile, issues>>

\* lines 631-634, 640-642: target authenticates with the supplied server and token
TargetAuth(p) ==
  LET r == inv[p]
      ok == Accepts(r.args.server, r.args.token)
  IN  /\ r.pc = "target_auth"
      /\ Log(Call(p, "auth", <<r.args.server, r.args.token>>, ok, <<>>))
      /\ Set(p, IF ok THEN Over([pc |-> "target_save"], r)
                ELSE IF IsNone(r.args.username) THEN Uncaught(r, "TypeError")
                ELSE Error(r, "Failed to validate JIRA credentials"))
      /\ UNCHANGED <<credsFile, templatesFile, issues>>

\* a save that keeps the fields of the old file the command line leaves out
SavedCredsMerged(args) ==
  LET old == IF ~IsNone(credsFile) /\ Val(credsFile).json THEN Val(credsFile)
             ELSE Creds("", None, None, None)
  IN  Creds(args.server,
            IF IsNone(args.username) THEN old.username ELSE args.username,
            args.token,
            IF IsNone(args.project) THEN old.project ELSE args.project)

\* what json.dump writes at lines 637-639
SavedCreds(args) == Creds(args.server, args.username, args.token, args.project)

\* lines 637-639
TargetSave(p) ==
  /\ inv[p].pc = "target_save"
  /\ credsFile' = Some(SavedCreds(inv[p].args))
  /\ Set(p, Over([pc |-> "parse"], inv[p]))
  /\ UNCHANGED <<templatesFile, issues, calls>>

\* lines 647-660
ParseLists(p) ==
  LET r == inv[p]
  IN  /\ r.pc = "parse"
      /\ Set(p, Over([pc |-> IF r.args.action # CMD_TEMPLATE_LIST THEN "load_creds"
                             ELSE "dispatch",
                      components |-> SplitArg(r.args.components),
                      labels |-> SplitArg(r.args.labels),
                      project |-> r.args.project], r))
      /\ UNCHANGED <<credsFile, templatesFile, issues, calls>>

CredsError == "Could not load credentials"

\* lines 662-665, 670-672
LoadCreds(p) ==
  LET r == inv[p]
  IN  /\ r.pc = "load_creds"
      /\ Set(p, IF IsNone(credsFile) \/ ~Val(credsFile).json
                THEN Error(Over([credsOpened |-> TRUE], r), CredsError)
                ELSE Over([pc |-> "auth", credsOpened |-> TRUE, creds |-> credsFile], r))
      /\ UNCHANGED <<credsFile, templatesFile, issues, calls>>

\* lines 667-676
Authenticate(p) ==
  LET r == inv[p]
      c == Val(r.creds)
      ok == Accepts(c.server, c.token)
  IN  /\ r.pc = "auth"
      /\ Log(Call(p, "auth", <<c.server, c.token>>, ok, <<>>))
      /\ Set(p, IF ok
                THEN Over([pc |-> "dispatch", client |-> TRUE,
                           project |-> IF ~IsNone(r.args.project) THEN r.args.project
                                       ELSE c.project], r)
                ELSE Error(r, CredsError))
      /\ UNCHANGED <<credsFile, templatesFile, issues>>

ListActions == {CMD_COMPONENT_ADD, CMD_COMPONENT_REMOVE, CMD_LABEL_ADD, CMD_LABEL_REMOVE}
ComponentActions == {CMD_COMPONENT_ADD, CMD_COMPONENT_REMOVE}

\* the ACTION_* the dispatcher passes at lines 719-729
ManageAction(action) ==
  IF action \in {CMD_COMPONENT_ADD, CMD_LABEL_ADD} THEN ACTION_ADD ELSE ACTION_REMOVE

\* the argument a handler refuses to run without; None when it checks nothing
MissingArgument(r) ==
  CASE r.args.action = CMD_ISSUE_COMMENT /\ IsNone(r.args.message) ->
         Some("A valid message must be specified.")
    [] r.args.action = CMD_ISSUE_ASSIGN /\ IsNone(r.args.assignee) ->
         Some("A valid assignee must be specified.")
    [] r.args.action \in ComponentActions /\ IsNone(r.components) ->
         Some("A valid component value must be specified.")
    [] r.args.action \in ListActions \ ComponentActions /\ IsNone(r.labels) ->
         Some("A valid label value must be specified.")
    [] OTHER -> None

\* the arguments main passes to doIssueCreate at line 682
CreateFrame(r) ==
  [project |-> r.project, issuetype |-> r.args.issuetype, parent |-> r.args.parent,
   priority |-> r.args.priority, summary |-> r.args.summary,
   description |-> r.args.description, assignee |-> r.args.assignee,
   components |-> r.components, labels |-> r.labels]

\* lines 681-737: the handler of the action, up to its first call or file read
Dispatch(p) ==
  LET r == inv[p]
      a == r.args.action
  IN  /\ r.pc = "dispatch"
      /\ Set(p, CASE a = CMD_TARGET -> Finish(r, 0, "none", <<>>)
                  [] a = CMD_ISSUE_UPDATE ->
                       Error(r, "This functionlity in unsupported at this time")
                  [] a = CMD_ISSUE_CREATE -> Over([pc |-> "create", fr |-> CreateFrame(r)], r)
                  [] a = CMD_TEMPLATE_CREATE -> Over([pc |-> "tmpl_load"], r)
                  [] a = CMD_TEMPLATE_LIST -> Over([pc |-> "tmpl_list"], r)
                  [] OTHER -> IF ~IsNone(MissingArgument(r))
                              THEN Error(r, Val(MissingArgument(r)))
                              ELSE Over([pc |-> "get"], r))
      /\ UNCHANGED <<credsFile, templatesFile, issues, calls>>

Known(key) == ~IsNone(key) /\ Val(key) \in DOMAIN issues

\* lines 454-456 and 496-498: the list copied from the issue just fetched
CurrentList(action, issue) ==
  IF action \in ComponentActions THEN NameObjects(Names(ComponentsOf(issue)))
  ELSE LabelsOf(issue)

\* the values of the command line, as the elements of that list
Supplied(r) ==
  IF r.args.action \in ComponentActions THEN NameObjects(Val(r.components))
  ELSE Val(r.labels)

\* lines 461-466 and 503-508: the list to write
NewList(r, issue) ==
  ManageList(CurrentList(r.args.action, issue), Supplied(r), ManageAction(r.args.action))

\* jira.issue(key), and what each handler does with the issue before its next call
GetIssue(p) ==
  LET r == inv[p]
      a == r.args.action
      key == r.args.key
      ok == Known(key)
  IN  /\ r.pc = "get"
      /\ Log(Call(p, "get", <<key>>, ok, <<>>))
      /\ Set(p, IF ~ok THEN Error(r, "Specified issue does not exist")
                ELSE IF a = CMD_ISSUE_READ
                THEN Finish(r, 0, "none", <<Line("json", <<issues[Val(key)].fields>>)>>)
                ELSE IF a \in ListActions
                THEN LET m == NewList(r, issues[Val(key)])
                         cur == CurrentList(a, issues[Val(key)])
                     IN  IF m.ok THEN Over([pc |-> "write", issue |-> key, current |-> cur,
                                            newlist |-> m.list], r)
                         ELSE Uncaught(Over([issue |-> key, current |-> cur], r),
                                       "ValueError")
                ELSE Over([pc |-> "mutate", issue |-> key], r))
      /\ UNCHANGED <<credsFile, templatesFile, issues>>

\* the field the list actions overwrite
ListField(action) == IF action \in ComponentActions THEN "components" ELSE "labels"

\* a write that computes the list again from the issue as it is now
ListWriteFresh(p) ==
  LET r == inv[p]
      k == Val(r.issue)
      field == ListField(r.args.action)
  IN  /\ r.pc = "write"
      /\ \E ok \in BOOLEAN :
           /\ ok => k \in DOMAIN issues /\ NewList(r, issues[k]).ok
           /\ LET list == IF ok THEN NewList(r, issues[k]).list ELSE r.newlist
              IN  /\ Log(Call(p, "update", <<k, field, list>>, ok, <<>>))
                  /\ issues' = IF ok THEN [issues EXCEPT ![k].fields = Ext(@, field, list)]
                               ELSE issues
           /\ Set(p, IF ok THEN Finish(r, 0, "none", <<Line("OK", <<field>>)>>)
                     ELSE Error(r, "Failed to manage issue list"))
      /\ UNCHANGED <<credsFile, templatesFile>>

\* lines 470 and 512: issue.update(fields={...: list})
ListWrite(p) ==
  LET r == inv[p]
      k == Val(r.issue)
      field == ListField(r.args.action)
  IN  /\ r.pc = "write"
      /\ \E ok \in BOOLEAN :
           /\ ok => k \in DOMAIN issues
           /\ Log(Call(p, "update", <<k, field, r.newlist>>, ok, <<>>))
           /\ issues' = IF ok THEN [issues EXCEPT ![k].fields = Ext(@, field, r.newlist)]
                        ELSE issues
           /\ Set(p, IF ok THEN Finish(r, 0, "none", <<Line("OK", <<field>>)>>)
                     ELSE Error(r, "Failed to manage issue list"))
      /\ UNCHANGED <<credsFile, templatesFile>>

\* the call each handler makes on the issue it fetched
MutateOp(action) ==
  CASE action = CMD_ISSUE_DELETE -> "delete"
    [] action = CMD_ISSUE_COMMENT -> "add_comment"
    [] action = CMD_ISSUE_ASSIGN -> "assign_issue"
    [] action = CMD_ISSUE_UPDATE_EPIC -> "add_issues_to_epic"
    [] action = CMD_ISSUE_UPDATE_SPRINT -> "add_issues_to_sprint"
    [] action = CMD_ISSUE_WATCHER_ADD -> "add_watcher"
    [] action = CMD_ISSUE_WATCHER_REMOVE -> "remove_watcher"
    [] OTHER -> "update"

\* its argument besides the issue
MutateArg(args) ==
  CASE args.action = CMD_ISSUE_COMMENT -> args.message
    [] args.action = CMD_ISSUE_ASSIGN -> args.assignee
    [] args.action \in {CMD_ISSUE_UPDATE_EPIC, CMD_ISSUE_UPDATE_SPRINT} -> args.parent
    [] args.action = CMD_ISSUE_UPDATE_REPORTER -> args.reporter
    [] args.action = CMD_ISSUE_UPDATE_DUE_DATE -> args.duedate
    [] args.action \in {CMD_ISSUE_WATCHER_ADD, CMD_ISSUE_WATCHER_REMOVE} -> args.watcher
    [] OTHER -> None

\* the tracker after an accepted call
Mutated(store, k, args) ==
  CASE args.action = CMD_ISSUE_DELETE -> [j \in DOMAIN store \ {k} |-> store[j]]
    [] args.action = CMD_ISSUE_UPDATE_EPIC -> [store EXCEPT ![k].epic = args.parent]
    [] OTHER -> [store EXCEPT ![k].fields = Ext(@, MutateOp(args.action), MutateArg(args))]

\* the second call of delete, comment, assign, update-epic, update-sprint,
\* update-reporter, update-due-date, watcher-add and watcher-remove
Mutate(p) ==
  LET r == inv[p]
      k == Val(r.issue)
      op == MutateOp(r.args.action)
  IN  /\ r.pc = "mutate"
      /\ \E ok \in BOOLEAN :
           /\ ok => k \in DOMAIN issues
           /\ Log(Call(p, op, <<k, MutateArg(r.args)>>, ok, <<>>))
           /\ issues' = IF ok THEN Mutated(issues, k, r.args) ELSE issues
           /\ Set(p, IF ok THEN Finish(r, 0, "none", <<Line("OK", <<op>>)>>)
                     ELSE Error(r, "The tracker rejected the call"))
      /\ UNCHANGED <<credsFile, templatesFile>>

\* lines 140-181: doIssueCreate builds the fields and calls create_issue
CreateIssue(p) ==
  LET r == inv[p]
      f == r.fr
      fields == CreateFields(f.project, f.issuetype, f.parent, f.priority, f.summary,
                             f.description, f.assignee, f.components, f.labels)
      k == NewKey(issues)
  IN  /\ r.pc = "create"
      /\ \E ok \in BOOLEAN :
           /\ Log(Call(p, "create", <<fields>>, ok, IF ok THEN Some(k) ELSE None))
           /\ issues' = IF ok THEN Ext(issues, k, Issue(fields)) ELSE issues
           /\ Set(p, IF ~ok THEN Error(r, "Could not create issue")
                     ELSE Over([pc |-> IF NeedsEpicLink(f.issuetype, f.parent) THEN "link"
                                       ELSE "created",
                                created |-> Some(k)], r))
      /\ UNCHANGED <<credsFile, templatesFile>>

\* an epic-link call whose failure is swallowed
LinkEpicSwallow(p) ==
  LET r == inv[p]
      k == Val(r.created)
  IN  /\ r.pc = "link"
      /\ \E ok \in BOOLEAN :
           /\ ok => k \in DOMAIN issues
           /\ Log(Call(p, "add_issues_to_epic", <<Val(r.fr.parent), <<k>>>>, ok, <<>>))
           /\ issues' = IF ok THEN [issues EXCEPT ![k].epic = r.fr.parent] ELSE issues
           /\ Set(p, Over([pc |-> "created"], r))
      /\ UNCHANGED <<credsFile, templatesFile>>

\* lines 184-190: jira.add_issues_to_epic(parent, [issue.key])
LinkEpic(p) ==
  LET r == inv[p]
      k == Val(r.created)
  IN  /\ r.pc = "link"
      /\ \E ok \in BOOLEAN :
           /\ ok => k \in DOMAIN issues
           /\ Log(Call(p, "add_issues_to_epic", <<Val(r.fr.parent), <<k>>>>, ok, <<>>))
           /\ issues' = IF ok THEN [issues EXCEPT ![k].epic = r.fr.parent] ELSE issues
           /\ Set(p, IF ok THEN Over([pc |-> "created"], r)
                     ELSE Error(r, "Could not link issue to epic"))
      /\ UNCHANGED <<credsFile, templatesFile>>

\* lines 192 and 683: issue-create prints the new issue's address
IssueCreated(p) ==
  LET r == inv[p]
  IN  /\ r.pc = "created"
      /\ r.args.action = CMD_ISSUE_CREATE
      /\ Set(p, Finish(r, 0, "none", <<Line("url", <<Val(r.created)>>)>>))
      /\ UNCHANGED <<credsFile, templatesFile, issues, calls>>

\* the arguments doTemplateCreate passes to doIssueCreate at lines 575 and 595
TemplateFrame(project, def, parent, summary, description, assignee) ==
  [project |-> project, issuetype |-> def.type, parent |-> parent,
   priority |-> PRIORITY_MAJOR, summary |-> Some(summary),
   description |-> Some(description), assignee |-> assignee,
   components |-> Some(def.components), labels |-> Some(def.labels)]

\* lines 535-536
TemplateAssignee(assignee) == IF IsNone(assignee) THEN Some("") ELSE assignee

\* line 561: parent["be_unique"] is there and true
MustBeUnique(parent) == ~IsNone(parent.be_unique) /\ Val(parent.be_unique)

\* lines 527-561: load the catalog, pick the template, compute the parent
TemplateLoad(p) ==
  LET r == inv[p]
      tid == r.args.template
  IN  /\ r.pc = "tmpl_load"
      /\ Set(p, IF IsNone(templatesFile) THEN Uncaught(r, "FileNotFoundError")
                ELSE IF IsNone(tid) \/ Val(tid) \notin DOMAIN Val(templatesFile).t
                THEN Uncaught(r, "KeyError")
                ELSE LET parent == Val(templatesFile).t[Val(tid)].parent
                         project == IF IsNone(r.project) THEN Some(parent.project)
                                    ELSE r.project
                     IN  Over([pc |-> IF MustBeUnique(parent) THEN "search" ELSE "create",
                               tmpl |-> Some(parent), project |-> project, child |-> 0,
                               fr |-> TemplateFrame(project, parent, None,
                                        ParentSummary(parent, r.args.summary),
                                        ParentDescription(parent, r.args.summary),
                                        TemplateAssignee(r.args.assignee))], r))
      /\ UNCHANGED <<credsFile, templatesFile, issues, calls>>

\* a check that lets a single match through
AlreadyExistsTwice(found) == Cardinality(found) > 1

\* line 565: len(issues)
AlreadyExists(found) == found # {}

\* lines 563-569: the uniqueness search; which issues match is the tracker's answer
TemplateSearch(p) ==
  LET r == inv[p]
  IN  /\ r.pc = "search"
      /\ \E ok \in BOOLEAN : \E found \in SUBSET DOMAIN issues :
           /\ ~ok => found = {}
           /\ Log(Call(p, "search", <<r.project, Val(r.fr.summary)>>, ok, SortedSeq(found)))
           /\ Set(p, IF ~ok THEN Uncaught(r, "JIRAError")
                     ELSE IF AlreadyExists(found)
                     THEN Finish(r, 0, "none", <<Line("exists", SortedSeq(found))>>)
                     ELSE Over([pc |-> "create"], r))
      /\ UNCHANGED <<credsFile, templatesFile, issues>>

\* an iteration over the children from the last to the first
ChildAtReversed(parent, n) == parent.children[Len(parent.children) + 1 - n]

\* line 579: the child of the n-th iteration
ChildAt(parent, n) == parent.children[n]

\* lines 576-598 and 733: after the parent or a child is created, the next
\* child, or the parent's address once every child is created
TemplateNext(p) ==
  LET r == inv[p]
      parent == Val(r.tmpl)
      parentIssue == IF r.child = 0 THEN r.created ELSE r.parentIssue
      n == r.child + 1
  IN  /\ r.pc = "created"
      /\ r.args.action = CMD_TEMPLATE_CREATE
      /\ Set(p, IF n > Len(parent.children)
                THEN Finish(Over([parentIssue |-> parentIssue], r), 0, "none",
                            <<Line("url", <<Val(parentIssue)>>)>>)
                ELSE LET t == ChildTexts(ChildAt(parent, n), r.args.summary)
                     IN  IF ~t.ok
                         THEN Uncaught(Over([parentIssue |-> parentIssue], r), "TypeError")
                         ELSE Over([pc |-> "create", child |-> n,
                                    parentIssue |-> parentIssue,
                                    fr |-> TemplateFrame(r.project, ChildAt(parent, n),
                                             parentIssue, t.summary, t.description,
                                             r.fr.assignee)], r))
      /\ UNCHANGED <<credsFile, templatesFile, issues, calls>>

\* the identifiers in the order of the file
TemplateIdsUnsorted(catalog) == catalog.order

\* sorted(templates.keys())
TemplateIds(catalog) == SortedSeq(Range(catalog.order))

\* lines 603-614 and 735-737
TemplateList(p) ==
  LET r == inv[p]
  IN  /\ r.pc = "tmpl_list"
      /\ Set(p, IF IsNone(templatesFile) THEN Uncaught(r, "FileNotFoundError")
                ELSE Finish(r, 0, "none", <<Line("ids", TemplateIds(Val(templatesFile)))>>))
      /\ UNCHANGED <<credsFile, templatesFile, issues, calls>>

Step(p) ==
  \/ Start(p)
  \/ TargetAuth(p)
  \/ TargetSave(p)
  \/ ParseLists(p)
  \/ LoadCreds(p)
  \/ Authenticate(p)
  \/ Dispatch(p)
  \/ GetIssue(p)
  \/ ListWrite(p)
  \/ Mutate(p)
  \/ CreateIssue(p)
  \/ LinkEpic(p)
  \/ IssueCreated(p)
  \/ TemplateLoad(p)
  \/ TemplateSearch(p)
  \/ TemplateNext(p)
  \/ TemplateList(p)

\* one invocation of the program
Next == Step(1)

Spec == Init /\ [][Next]_vars

---------------------------------------------------------------------------
(* Two invocations of the list actions on one issue, in two processes *)

\* the command lines of the two invocations
RaceArgs ==
  {With(action, [key |-> Some(1), components |-> c]) :
     action \in ComponentActions, c \in {Some(<<"a">>), Some(<<"b">>)}}
  \cup
  {With(action, [key |-> Some(1), labels |-> l]) :
     action \in ListActions \ ComponentActions,
     l \in {Some(<<"a">>), Some(<<"b">>), Some(<<"c", ",", "a">>)}}

\* both find the credentials of an earlier target
RaceInit ==
  /\ inv = [p \in Procs |-> Idle]
  /\ credsFile = Some(Creds("prod", Some("u"), Some("tok"), Some("P")))
  /\ templatesFile = Some(Catalog)
  /\ issues \in InitIssues
  /\ calls = <<>>

\* line 623: parse_args of a list action
RaceStart(p) ==
  /\ inv[p].pc = "idle"
  /\ \E a \in RaceArgs :
       Set(p, Over([pc |-> "parse", args |-> a, creds0 |-> credsFile,
                    templates0 |-> templatesFile], inv[p]))
  /\ UNCHANGED <<credsFile, templatesFile, issues, calls>>

RaceStep(p) ==
  \/ RaceStart(p)
  \/ ParseLists(p)
  \/ LoadCreds(p)
  \/ Authenticate(p)
  \/ Dispatch(p)
  \/ GetIssue(p)
  \/ ListWrite(p)

\* the operating system runs the two processes in any interleaving
RaceNext == \E p \in Procs : RaceStep(p)

SpecRace == RaceInit /\ [][RaceNext]_vars

---------------------------------------------------------------------------
(* Properties *)

\* the invocation under study
Me == inv[1]

ReadOps == {"auth", "get", "search"}
\* the positions of process p's calls whose operation is in ops
CallsWhere(p, ops) == {i \in 1..Len(calls) : calls[i].proc = p /\ calls[i].op \in ops}
\* the positions of process p's calls that change the tracker when accepted
WritesBy(p) == {i \in 1..Len(calls) : calls[i].proc = p /\ calls[i].op \notin ReadOps}

\* some value is to be removed more often than the list holds it
RemovesAbsent(current, values) ==
  \E i \in 1..Len(values) : Count(values, values[i]) > Count(current, values[i])

\* the list computation of a list action fails on the list it fetched
ListComputationFails(r) ==
  /\ r.args.action \in {CMD_COMPONENT_REMOVE, CMD_LABEL_REMOVE}
  /\ RemovesAbsent(r.current, Supplied(r))

\* C1: once a list action (component-add, component-remove, label-add,
\* label-remove) has fetched the issue, it makes no writing call at all when
\* the list computation fails (a value to remove is not in the fetched list),
\* and when the computation succeeds it has made, by the time it ends, exactly
\* one writing call: one update of the whole list of the fetched issue,
\* whatever the number of values supplied.
C1_ListWriteOnce ==
  (Me.args.action \in ListActions /\ ~IsNone(Me.issue)) =>
     /\ ListComputationFails(Me) => WritesBy(1) = {} /\ Me.pc = "done"
     /\ (~ListComputationFails(Me) /\ Me.pc = "done") =>
          /\ Cardinality(WritesBy(1)) = 1
          /\ \A i \in WritesBy(1) :
               /\ calls[i].op = "update"
               /\ calls[i].a[1] = Val(Me.issue)
               /\ calls[i].a[2] = ListField(Me.args.action)

\* C1 witness: a label-remove of two values, the first in the fetched list
\* and the second not, has ended without any writing call.
C1_Witness ==
  /\ Me.args.action = CMD_LABEL_REMOVE
  /\ Me.pc = "done"
  /\ ~IsNone(Me.issue)
  /\ Len(Me.labels) = 1 /\ Len(Val(Me.labels)) = 2
  /\ Count(Me.current, Val(Me.labels)[1]) > 0
  /\ Count(Me.current, Val(Me.labels)[2]) = 0
  /\ WritesBy(1) = {}

CreatesOf(p) == CallsWhere(p, {"create"})
LinksOf(p) == CallsWhere(p, {"add_issues_to_epic"})

\* C2: in issue-create with a parent, a Sub-task carries the parent key in
\* the create payload and no epic-link call is made; any other type carries
\* no parent field, every epic-link call follows a successful create call and
\* links the key that call returned to the parent, and exactly one is made
\* when the create call succeeded; without a parent no epic-link call is made.
C2_ParentOrEpicLink ==
  Me.args.action = CMD_ISSUE_CREATE =>
     LET parent == Me.args.parent
         sub == Me.args.issuetype = ISSUE_TYPE_SUBTASK
     IN  /\ IsNone(parent) => LinksOf(1) = {}
         /\ (~IsNone(parent) /\ sub) =>
              /\ LinksOf(1) = {}
              /\ \A i \in CreatesOf(1) :
                   /\ "parent" \in DOMAIN calls[i].a[1]
                   /\ calls[i].a[1]["parent"] = [key |-> Val(parent)]
         /\ (~IsNone(parent) /\ ~sub) =>
              /\ \A i \in CreatesOf(1) : "parent" \notin DOMAIN calls[i].a[1]
              /\ Cardinality(LinksOf(1)) <= 1
              /\ \A j \in LinksOf(1) :
                   \E i \in CreatesOf(1) :
                      /\ i < j
                      /\ calls[i].ok
                      /\ calls[j].a = <<Val(parent), calls[i].r>>
              /\ (Me.pc \in {"created", "done"} /\ \E i \in CreatesOf(1) : calls[i].ok)
                   => Cardinality(LinksOf(1)) = 1

\* C2 witness: an issue-create of a Task with a parent has ended after one
\* create call and one epic-link call.
C2_Witness ==
  /\ Me.args.action = CMD_ISSUE_CREATE
  /\ Me.args.issuetype = ISSUE_TYPE_TASK
  /\ ~IsNone(Me.args.parent)
  /\ Me.pc = "done"
  /\ Cardinality(CreatesOf(1)) = 1
  /\ Cardinality(LinksOf(1)) = 1

\* the uniqueness searches of process p that returned at least one issue
MatchesOf(p) == {i \in CallsWhere(p, {"search"}) : calls[i].ok /\ Len(calls[i].r) > 0}

\* C3: when the uniqueness search of a template-create returns at least one
\* issue, no create call is made, the matching keys are printed and the exit
\* code is 0; a must-be-unique template makes no create call before its search.
C3_UniqueNoCreate ==
  Me.args.action = CMD_TEMPLATE_CREATE =>
     /\ \A i \in MatchesOf(1) :
          /\ CreatesOf(1) = {}
          /\ Me.pc = "done"
          /\ Me.exit = Some(0)
          /\ Len(Me.out) = 1
          /\ Me.out[1].kind = "exists"
          /\ Me.out[1].data = calls[i].r
     /\ (~IsNone(Me.tmpl) /\ MustBeUnique(Val(Me.tmpl))) =>
          \A j \in CreatesOf(1) : \E i \in CallsWhere(1, {"search"}) : i < j

\* C3 witness: the search of the must-be-unique template found two issues and
\* the invocation ended with exit code 0.
C3_Witness ==
  /\ Me.args.action = CMD_TEMPLATE_CREATE
  /\ \E i \in MatchesOf(1) : Len(calls[i].r) = 2
  /\ Me.exit = Some(0)

FailedBy(p) == {i \in 1..Len(calls) : calls[i].proc = p /\ ~calls[i].ok}

\* the create call at position i refers to the issue with key pk: as its
\* parent field, or by an epic-link call made after it
RefersTo(i, pk) ==
  IF "parent" \in DOMAIN calls[i].a[1]
  THEN calls[i].a[1]["parent"] = [key |-> pk]
  ELSE \E j \in LinksOf(calls[i].proc) : j > i /\ calls[j].ok /\ calls[j].a = <<pk, calls[i].r>>

\* C4: a template-create with a suffix s on a template with N children, with
\* no uniqueness match and every call accepted, ends with exit code 0 after
\* exactly 1 + N create calls: the parent with summary parent.summary ": " s,
\* then the children, child i with summary child.summary ": " s and referring
\* to the key the parent's create call returned; the 1 + N issues exist.
C4_TemplateCreatesAll ==
  ( /\ Me.args.action = CMD_TEMPLATE_CREATE
    /\ Me.pc = "done"
    /\ ~IsNone(Me.tmpl)
    /\ ~IsNone(Me.args.summary)
    /\ FailedBy(1) = {}
    /\ MatchesOf(1) = {} ) =>
     LET parent == Val(Me.tmpl)
         n == Len(parent.children)
         s == Val(Me.args.summary)
         cs == SortedSeq(CreatesOf(1))
     IN  /\ Me.exit = Some(0)
         /\ Len(cs) = 1 + n
         /\ calls[cs[1]].a[1]["summary"] = Some(parent.summary \o <<": ">> \o s)
         /\ \A i \in 1..n :
              /\ calls[cs[i + 1]].a[1]["summary"] =
                   Some(parent.children[i].summary \o <<": ">> \o s)
              /\ RefersTo(cs[i + 1], Val(calls[cs[1]].r))
         /\ \A j \in 1..(1 + n) : Val(calls[cs[j]].r) \in DOMAIN issues
         /\ Cardinality({Val(calls[cs[j]].r) : j \in 1..(1 + n)}) = 1 + n

\* C4 witness: the template with MaxChildren children and suffix "R1" has
\* ended with exit code 0, its parent created as "Release Checklist: R1".
C4_Witness ==
  /\ Me.args.action = CMD_TEMPLATE_CREATE
  /\ Me.pc = "done"
  /\ Me.exit = Some(0)
  /\ Me.args.summary = Some(<<"R1">>)
  /\ Cardinality(CreatesOf(1)) = 1 + MaxChildren
  /\ \E i \in CreatesOf(1) :
       calls[i].a[1]["summary"] = Some(<<"Release Checklist", ": ", "R1">>)

C6_EveryErrorReported ==
  (Me.pc = "done" /\ Me.exit # Some(0)) =>
     /\ Me.exit = Some(1)
     /\ Me.exc = "none"
     /\ Len(Me.out) = 1
     /\ Me.out[1].kind = "ERROR"

IsAscending(s) == \A i \in 1..(Len(s) - 1) : s[i] < s[i + 1]

\* C7: template-list never opens the credentials file, builds no client and
\* makes no call; with a catalog present it ends with exit code 0 and prints
\* the catalog's identifiers, each once, in ascending order.
C7_TemplateListNeedsNoCreds ==
  Me.args.action = CMD_TEMPLATE_LIST =>
     /\ ~Me.credsOpened
     /\ ~Me.client
     /\ CallsWhere(1, ReadOps) = {} /\ WritesBy(1) = {}
     /\ (Me.pc = "done" /\ ~IsNone(templatesFile)) =>
          /\ Me.exit = Some(0)
          /\ Len(Me.out) = 1
          /\ Me.out[1].kind = "ids"
          /\ IsAscending(Me.out[1].data)
          /\ Range(Me.out[1].data) = Range(Val(templatesFile).order)

\* C7 witness: template-list has ended with exit code 0 and there is no
\* credentials file.
C7_Witness ==
  /\ Me.args.action = CMD_TEMPLATE_LIST
  /\ IsNone(credsFile)
  /\ Me.pc = "done"
  /\ Me.exit = Some(0)

\* the pieces joined by "," atoms: what split(",") is given when it returns them
RECURSIVE JoinComma(_)
JoinComma(pieces) ==
  IF Len(pieces) = 0 THEN <<>>
  ELSE IF Len(pieces) = 1 THEN pieces[1]
  ELSE pieces[1] \o <<",">> \o JoinComma(Tail(pieces))

\* the create call just made by the invocation, whose arguments are still in
\* its frame
JustCreated ==
  /\ Len(calls) > 0
  /\ calls[Len(calls)].proc = 1
  /\ calls[Len(calls)].op = "create"
  /\ Me.pc # "create"

\* C8: the fields of every create call include project, issue type,
\* priority, summary and assignee as passed to doIssueCreate, and include
\* description, components and labels each exactly when it was supplied:
\* the components as name objects and the labels as plain strings, in the
\* order supplied (for issue-create: the order of the command line).
C8_CreatePayload ==
  JustCreated =>
     LET f == calls[Len(calls)].a[1]
         fr == Me.fr
     IN  /\ {"project", "issuetype", "priority", "summary", "assignee"} \subseteq DOMAIN f
         /\ f["project"] = [key |-> fr.project]
         /\ f["issuetype"] = [name |-> fr.issuetype]
         /\ f["priority"] = [name |-> fr.priority]
         /\ f["summary"] = fr.summary
         /\ f["assignee"] = [name |-> fr.assignee]
         /\ "description" \in DOMAIN f <=> ~IsNone(fr.description)
         /\ "description" \in DOMAIN f => f["description"] = Val(fr.description)
         /\ "components" \in DOMAIN f <=> ~IsNone(fr.components)
         /\ "components" \in DOMAIN f =>
              /\ Len(f["components"]) = Len(Val(fr.components))
              /\ \A i \in 1..Len(f["components"]) :
                   f["components"][i] = [name |-> Val(fr.components)[i]]
         /\ "labels" \in DOMAIN f <=> ~IsNone(fr.labels)
         /\ "labels" \in DOMAIN f => f["labels"] = Val(fr.labels)
         /\ Me.args.action = CMD_ISSUE_CREATE =>
              /\ fr.issuetype = Me.args.issuetype
              /\ fr.priority = Me.args.priority
              /\ fr.summary = Me.args.summary
              /\ fr.assignee = Me.args.assignee
              /\ fr.description = Me.args.description
              /\ IsNone(fr.components) <=> IsNone(Me.args.components)
              /\ ~IsNone(fr.components) =>
                   JoinComma(Val(fr.components)) = Val(Me.args.components)
              /\ IsNone(fr.labels) <=> IsNone(Me.args.labels)
              /\ ~IsNone(fr.labels) => JoinComma(Val(fr.labels)) = Val(Me.args.labels)

\* C8 witness: an issue-create with --components b,a and no --description and
\* no --labels has made its create call with the two components in that order.
C8_Witness ==
  /\ JustCreated
  /\ Me.args.action = CMD_ISSUE_CREATE
  /\ IsNone(Me.args.description)
  /\ IsNone(Me.args.labels)
  /\ Me.args.components = Some(<<"b", ",", "a">>)
  /\ calls[Len(calls)].a[1]["components"] = <<[name |-> <<"b">>], [name |-> <<"a">>]>>

\* C9: when the epic-link call of an issue-create fails, the invocation has
\* ended with exit code 1, the failed call is its last call, it has made no
\* delete call, and the issue it created is still there, linked to no epic.
C9_LinkFailureOrphans ==
  (Me.args.action = CMD_ISSUE_CREATE /\ \E j \in LinksOf(1) : ~calls[j].ok) =>
     /\ Me.pc = "done"
     /\ Me.exit = Some(1)
     /\ \A j \in LinksOf(1) : ~calls[j].ok => j = Len(calls)
     /\ CallsWhere(1, {"delete"}) = {}
     /\ Cardinality(WritesBy(1)) = 2
     /\ Val(Me.created) \in DOMAIN issues
     /\ IsNone(issues[Val(Me.created)].epic)

\* C9 witness: an issue-create of a Task with a parent whose create call
\* succeeded and whose epic-link call failed.
C9_Witness ==
  /\ Me.args.action = CMD_ISSUE_CREATE
  /\ Me.args.issuetype = ISSUE_TYPE_TASK
  /\ \E i \in CreatesOf(1) : calls[i].ok
  /\ \E j \in LinksOf(1) : ~calls[j].ok
  /\ Me.pc = "done"

StartsWith(text, prefix) ==
  Len(text) >= Len(prefix) /\ SubSeq(text, 1, Len(prefix)) = prefix

\* C10: template-create makes its create calls in the order parent, child 1,
\* child 2, ...; a create call is followed by another only when it was
\* accepted; a failed call is the invocation's last call and ends it with
\* exit code 1; no delete call is made and every issue created is still there.
C10_TemplateOrderNoRollback ==
  (Me.args.action = CMD_TEMPLATE_CREATE /\ ~IsNone(Me.tmpl)) =>
     LET parent == Val(Me.tmpl)
         cs == SortedSeq(CreatesOf(1))
     IN  /\ Len(cs) <= 1 + Len(parent.children)
         /\ \A j \in 1..Len(cs) :
              /\ StartsWith(Val(calls[cs[j]].a[1]["summary"]),
                            IF j = 1 THEN parent.summary
                            ELSE parent.children[j - 1].summary)
              /\ j < Len(cs) => calls[cs[j]].ok
              /\ calls[cs[j]].ok => Val(calls[cs[j]].r) \in DOMAIN issues
         /\ \A i \in FailedBy(1) : i = Len(calls) /\ Me.pc = "done" /\ Me.exit = Some(1)
         /\ CallsWhere(1, {"delete"}) = {}

\* C10 witness: of a template with three children, the parent and the first
\* child are created and the creation of the second child has failed.
C10_Witness ==
  /\ Me.args.action = CMD_TEMPLATE_CREATE
  /\ ~IsNone(Me.tmpl)
  /\ Len(Val(Me.tmpl).children) >= 3
  /\ Cardinality(CreatesOf(1)) = 3
  /\ Cardinality(CreatesOf(1) \cap FailedBy(1)) = 1
  /\ Cardinality(DOMAIN issues) = 4
  /\ Me.pc = "done"

\* the position of process p's accepted update call, 0 when it has none
WriteOf(p) ==
  IF \E i \in CallsWhere(p, {"update"}) : calls[i].ok
  THEN CHOOSE i \in CallsWhere(p, {"update"}) : calls[i].ok
  ELSE 0

\* the position of process p's accepted fetch, 0 when it has none
FetchOf(p) ==
  IF \E i \in CallsWhere(p, {"get"}) : calls[i].ok
  THEN CHOOSE i \in CallsWhere(p, {"get"}) : calls[i].ok
  ELSE 0

\* both invocations have fetched the issue before either wrote, both writes
\* of the same field were accepted, and process late wrote after process early
LostUpdate(early, late) ==
  /\ WriteOf(early) > 0 /\ WriteOf(late) > WriteOf(early)
  /\ FetchOf(early) > 0 /\ FetchOf(late) > 0
  /\ FetchOf(early) < WriteOf(early) /\ FetchOf(late) < WriteOf(early)
  /\ ListField(inv[early].args.action) = ListField(inv[late].args.action)

\* C11: when two list invocations on one issue both fetch before either
\* writes, both writes are accepted without any error, and the issue ends
\* with the list the later writer computed from the list it fetched itself:
\* the list the issue had before either write, changed by the later writer's
\* values only.
C11_LastWriterWins ==
  \A early \in Procs : \A late \in Procs \ {early} :
     LostUpdate(early, late) =>
        LET field == ListField(inv[late].args.action)
            before == inv[late].current
        IN  /\ inv[early].current = before
            /\ inv[early].exit = Some(0) /\ inv[early].exc = "none"
            /\ inv[late].exit = Some(0) /\ inv[late].exc = "none"
            /\ calls[WriteOf(late)].a[3] = inv[late].newlist
            /\ inv[late].newlist =
                 ManageList(before, Supplied(inv[late]),
                            ManageAction(inv[late].args.action)).list
            /\ issues[1].fields[field] = inv[late].newlist

\* C11 witness: two label-add invocations fetched before either wrote; the
\* first added "b", the second added "a", and "b" is no longer on the issue.
C11_Witness ==
  /\ LostUpdate(1, 2)
  /\ inv[1].args.action = CMD_LABEL_ADD /\ inv[1].labels = Some(<<<<"b">>>>)
  /\ inv[2].args.action = CMD_LABEL_ADD /\ inv[2].labels = Some(<<<<"a">>>>)
  /\ Count(calls[WriteOf(1)].a[3], <<"b">>) = 1
  /\ Count(issues[1].fields["labels"], <<"b">>) = 0
  /\ inv[2].pc = "done"

\* how many of the first i elements of list equal the i-th
Rank(list, i) == Cardinality({j \in 1..i : list[j] = list[i]})

\* list without the first Count(values, v) elements equal to v, for every v,
\* the elements that stay in the order they had
RECURSIVE WithoutFirst(_, _, _)
WithoutFirst(list, values, i) ==
  IF i > Len(list) THEN <<>>
  ELSE (IF Rank(list, i) > Count(values, list[i]) THEN <<list[i]>> ELSE <<>>)
       \o WithoutFirst(list, values, i + 1)

\* C12: the list a list action sends is computed from the list of the issue
\* it fetched in the same invocation: for an add, that list followed by every
\* supplied value in the order given, duplicates kept; for a remove, that
\* list without, for each supplied value, one element equal to it, the first
\* such element, the others in the order they had.
C12_ListWritten ==
  Me.args.action \in ListActions =>
     /\ Me.pc = "write" =>
          Me.current = CurrentList(Me.args.action, issues[Val(Me.args.key)])
     /\ \A i \in CallsWhere(1, {"update"}) :
          /\ calls[i].a[1] = Val(Me.args.key)
          /\ calls[i].a[2] = ListField(Me.args.action)
          /\ calls[i].a[3] =
               IF ManageAction(Me.args.action) = ACTION_ADD
               THEN Me.current \o Supplied(Me)
               ELSE WithoutFirst(Me.current, Supplied(Me), 1)

\* C12 witness: label-remove of "a" from the labels a, b, a was accepted and
\* wrote b, a.
C12_Witness ==
  /\ Me.args.action = CMD_LABEL_REMOVE
  /\ Me.current = <<<<"a">>, <<"b">>, <<"a">>>>
  /\ Supplied(Me) = <<<<"a">>>>
  /\ \E i \in CallsWhere(1, {"update"}) :
       calls[i].ok /\ calls[i].a[3] = <<<<"b">>, <<"a">>>>
  /\ LabelsOf(issues[1]) = <<<<"b">>, <<"a">>>>

\* the target invocation has written the credentials file
TargetSaved ==
  /\ Me.args.action = CMD_TARGET
  /\ Me.pc \notin {"idle", "target_auth", "target_save"}
  /\ Len(calls) > 0 /\ calls[1].op = "auth" /\ calls[1].ok

\* C13: the credentials file differs from the file the invocation found only
\* when the action is target and the login with the server and token of the
\* command line was accepted; once target has written, the file holds exactly
\* the server, username, token and project of this command line, an option
\* not supplied stored as absent; every other action, and a target whose
\* login is refused, leaves the file as it was.
C13_CredsFileFrame ==
  /\ Me.pc # "idle" /\ credsFile # Me.creds0 =>
       /\ TargetSaved
       /\ calls[1].a = <<Me.args.server, Me.args.token>>
       /\ Accepts(Me.args.server, Me.args.token)
  /\ TargetSaved =>
       credsFile = Some([json |-> TRUE, server |-> Me.args.server,
                         username |-> Me.args.username, token |-> Me.args.token,
                         project |-> Me.args.project])
  /\ Me.pc # "idle" /\ ~TargetSaved => credsFile = Me.creds0

\* C13 witness: target without --username and --project has replaced a file
\* that held a username and a project; the new file holds neither.
C13_Witness ==
  /\ Me.args.action = CMD_TARGET /\ Me.pc = "done" /\ Me.exit = Some(0)
  /\ Me.creds0 = Some(Creds("prod", Some("u"), Some("tok"), Some("P")))
  /\ IsNone(Me.args.username) /\ IsNone(Me.args.project)
  /\ credsFile = Some(Creds("prod", None, Some("tok"), None))

\* an argument the action cannot work without was not on the command line
RequiredArgumentMissing(r) ==
  LET a == r.args.action
  IN  \/ a \in {CMD_ISSUE_READ, CMD_ISSUE_DELETE} /\ IsNone(r.args.key)
      \/ a = CMD_ISSUE_COMMENT /\ IsNone(r.args.message)
      \/ a = CMD_ISSUE_ASSIGN /\ IsNone(r.args.assignee)
      \/ a \in {CMD_ISSUE_WATCHER_ADD, CMD_ISSUE_WATCHER_REMOVE} /\ IsNone(r.args.watcher)
      \/ a = CMD_TEMPLATE_CREATE /\ (IsNone(r.args.template) \/ IsNone(r.args.summary))
      \/ a \in ComponentActions /\ IsNone(r.args.components)
      \/ a \in ListActions \ ComponentActions /\ IsNone(r.args.labels)

\* C14: an invocation that lacks a required argument of its action (--key for
\* issue-read and issue-delete, --message for issue-comment, --assignee for
\* issue-assign, --watcher for the watcher actions, --template or the suffix
\* for template-create, --components or --labels for the list actions) has no
\* issue fetched and no create or mutating call made, and when it ends it
\* ends with a non-zero exit code and an ERROR line.
C14_RequiredArgumentsValidated ==
  Me.pc # "idle" /\ RequiredArgumentMissing(Me) =>
     /\ \A i \in CallsWhere(1, {"get", "search"}) : ~calls[i].ok
     /\ WritesBy(1) = {}
     /\ Me.pc = "done" =>
          /\ Me.exit = Some(1) /\ Me.exc = "none"
          /\ \E j \in 1..Len(Me.out) : Me.out[j].kind = "ERROR"

\* template-create ran without a suffix on a template that has a child, and
\* the tracker has accepted the create of the parent
ParentCreatedWithoutSuffix ==
  /\ Me.args.action = CMD_TEMPLATE_CREATE /\ IsNone(Me.args.summary)
  /\ ~IsNone(Me.tmpl) /\ Len(Val(Me.tmpl).children) >= 1
  /\ \E i \in CallsWhere(1, {"create"}) : calls[i].ok

\* C15: template-create without a suffix, on a template with at least one
\* child, whose uniqueness search (if any) matched nothing and whose parent
\* create was accepted: the parent is created with the template's parent
\* summary, unsuffixed; no create call is made for any child and nothing is
\* deleted; the invocation ends with a non-zero exit code, by an exception
\* nothing catches, and the one issue it created stays on the tracker.
C15_NoSuffixLeavesParent ==
  ParentCreatedWithoutSuffix =>
     /\ Cardinality(CallsWhere(1, {"create"})) = 1
     /\ WritesBy(1) = CallsWhere(1, {"create"})
     /\ \A i \in CallsWhere(1, {"search"}) : calls[i].ok /\ calls[i].r = <<>>
     /\ \A i \in CallsWhere(1, {"create"}) :
          /\ calls[i].a[1].summary = Some(Val(Me.tmpl).summary)
          /\ "parent" \notin DOMAIN calls[i].a[1]
          /\ Val(calls[i].r) \in DOMAIN issues
          /\ issues[Val(calls[i].r)].fields = calls[i].a[1]
     /\ Me.pc \in {"created", "done"}
     /\ Me.pc = "done" =>
          /\ Me.exit = Some(1) /\ Me.exc = "TypeError"
          /\ Me.child = 0

\* C15 witness: the unique template with children, no suffix, no match: the
\* run has ended with exit code 1 and one issue more on the tracker.
C15_Witness ==
  /\ ParentCreatedWithoutSuffix
  /\ Me.args.template = Some(1)
  /\ CallsWhere(1, {"search"}) # {}
  /\ Me.pc = "done" /\ Me.exit = Some(1)
  /\ Len(issues) = 3
  /\ issues[3].fields.summary = Some(<<"Release Checklist">>)

====
